---------------------------- MODULE Spec2Model ----------------------------
(***************************************************************************)
(* A model of behavenet/analyses/ssm_harness.py: the disk-backed `cached`  *)
(* decorator, fit_model's usage relabelling, sample_arhmm's sampling loop  *)
(* and make_hollywood_movie's frame loop.  Each part has its own           *)
(* specification (SpecCache, SpecFit, SpecSample, SpecMovie) over the      *)
(* variables of that part; the other parts' variables stay idle.           *)
(***************************************************************************)
EXTENDS Integers, Sequences, FiniteSets, TLC

VARIABLES
    \* ---- cached ----
    files,      \* the file system: results-file path -> [exists, data]
    execs,      \* per key: how often the wrapped function body has run
    rets,       \* per key: the set of values calls have returned
    faulted,    \* per key: a call raised before any results file was created
    first,      \* per key: "unused", or what the first call found: "fresh" / "stale"
    last,       \* the last call through func_wrapper
    ncalls,     \* number of calls made so far
    \* ---- fit_model ----
    f_pc,           \* position in fit_model
    f_K,            \* num_discrete_states
    training_data,  \* the training trials: a sequence of [id, T]
    training_inputs,\* None, or the caller's list of per-trial inputs
    model,          \* the HMM object: [order, z]; None before construction
    train_states,   \* the local train_states (a list of state paths)
    usage,          \* the local usage (np.bincount's result)
    f_perm,         \* the permutation handed to model.permute
    decoded1,       \* history: the train_states of the first decoding (line 111)
    f_log,          \* history: the library calls made, in order
    f_ret,          \* what fit_model returned
    \* ---- sample_arhmm ----
    s_pc,           \* position in sample_arhmm ("idle" between calls)
    heap,           \* the model objects: reference -> [K, bias, scratch]
    arhmm,          \* the local arhmm: a reference (0 when unset)
    rng,            \* the state of numpy.random's global generator
    seedOf,         \* the seed last given to npr.seed, -1 once a draw followed it
    test_input,     \* the input sequence; T is its length
    num_samples,
    with_noise,
    smpl,           \* the loop variable: draws made so far
    z_smpls,
    x_smpls,
    s_seed,         \* history: seedOf when the running call began
    runs,           \* history: [seed, z, x] of each completed call
    \* ---- make_hollywood_movie ----
    m_pc,           \* position in make_hollywood_movie
    ffmpeg,         \* whether matplotlib has an 'ffmpeg' writer registered
    m_T,            \* real_image_stack.shape[0]
    m_N,            \* len(decoded_image_stacks)
    titles,         \* None, or the caller's list of titles
    m_i,            \* the frame loop's variable
    shown,          \* the time index the figure shows
    grabbed         \* the time indices of the frames handed to the encoder

cacheVars == <<files, execs, rets, faulted, first, last, ncalls>>
fitVars == <<f_pc, f_K, training_data, training_inputs, model, train_states, usage,
             f_perm, decoded1, f_log, f_ret>>

sampleVars == <<s_pc, heap, arhmm, rng, seedOf, test_input, num_samples, with_noise,
                smpl, z_smpls, x_smpls, s_seed, runs>>
movieVars == <<m_pc, ffmpeg, m_T, m_N, titles, m_i, shown, grabbed>>

vars == <<cacheVars, fitVars, sampleVars, movieVars>>

otherThanCache == <<fitVars, sampleVars, movieVars>>
otherThanFit == <<cacheVars, sampleVars, movieVars>>
otherThanSample == <<cacheVars, fitVars, movieVars>>
otherThanMovie == <<cacheVars, fitVars, sampleVars>>

(***************************************************************************)
(*                                 cached                                  *)
(***************************************************************************)

\* Bound: calls through func_wrapper in one behaviour.
MaxCalls == 3

\* Python values the wrapped function may return. v holds the int items.
PyNone == [t |-> "none", v |-> <<>>]
PyInt(n) == [t |-> "int", v |-> <<n>>]
PyTuple(s) == [t |-> "tuple", v |-> s]
PyList(s) == [t |-> "list", v |-> s]
\* a function object: pickle.dump raises PicklingError on it
PyLambda == [t |-> "lambda", v |-> <<>>]
PyMark == [t |-> "mark", v |-> <<>>]

Values == {PyNone, PyTuple(<<0, 1>>), PyList(<<1, 0>>), PyList(<<1>>), PyLambda}

Picklable(v) == v.t # "lambda"

\* ---- pickle.dump: the opcode stream written to the file ----
Tok(op, arg) == [op |-> op, arg |-> arg]

RECURSIVE SaveInts(_)
SaveInts(s) ==
    IF s = <<>> THEN <<>>
    ELSE <<Tok("BININT1", Head(s))>> \o SaveInts(Tail(s))

\* a pickler that writes a tuple the way it writes a list
SaveTupleAsList(s) ==
    <<Tok("EMPTY_LIST", 0), Tok("MEMOIZE", 0), Tok("MARK", 0)>> \o SaveInts(s) \o
    <<Tok("APPENDS", 0)>>

SaveTuple(s) ==
    IF Len(s) = 0 THEN <<Tok("EMPTY_TUPLE", 0)>>
    ELSE SaveInts(s) \o <<Tok(IF Len(s) = 1 THEN "TUPLE1" ELSE "TUPLE2", 0),
                          Tok("MEMOIZE", 0)>>

SaveList(s) ==
    <<Tok("EMPTY_LIST", 0), Tok("MEMOIZE", 0)>> \o
    (IF Len(s) = 0 THEN <<>>
     ELSE IF Len(s) = 1 THEN SaveInts(s) \o <<Tok("APPEND", 0)>>
     ELSE <<Tok("MARK", 0)>> \o SaveInts(s) \o <<Tok("APPENDS", 0)>>)

Save(v) ==
    CASE v.t = "none" -> <<Tok("NONE", 0)>>
      [] v.t = "int" -> SaveInts(v.v)
      [] v.t = "tuple" -> SaveTuple(v.v)
      [] v.t = "list" -> SaveList(v.v)

Dumps(v) == <<Tok("PROTO", 4)>> \o Save(v) \o <<Tok("STOP", 0)>>

\* ---- pickle.load: the unpickling stack machine ----
LoadFail == [ok |-> FALSE, val |-> PyNone]

Top(stack) == stack[Len(stack)]
Pop(stack, n) == SubSeq(stack, 1, Len(stack) - n)

\* index of the topmost MARK on the stack, 0 if none
RECURSIVE MarkPos(_, _)
MarkPos(stack, i) ==
    IF i = 0 THEN 0
    ELSE IF stack[i] = PyMark THEN i
    ELSE MarkPos(stack, i - 1)

\* the ints held by stack[from..Len(stack)]
Ints(stack, from) == [j \in 1..(Len(stack) - from + 1) |-> stack[from + j - 1].v[1]]

AllInts(stack, from) == \A j \in from..Len(stack) : stack[j].t = "int"

RECURSIVE Unpickle(_, _, _)
Unpickle(data, i, stack) ==
    IF i > Len(data) THEN LoadFail          \* EOFError: ran out of input
    ELSE LET op == data[i].op
             n == Len(stack)
         IN
         CASE op = "PROTO" -> Unpickle(data, i + 1, stack)
           [] op = "MEMOIZE" ->
                IF n = 0 THEN LoadFail ELSE Unpickle(data, i + 1, stack)
           [] op = "NONE" -> Unpickle(data, i + 1, Append(stack, PyNone))
           [] op = "BININT1" -> Unpickle(data, i + 1, Append(stack, PyInt(data[i].arg)))
           [] op = "EMPTY_TUPLE" -> Unpickle(data, i + 1, Append(stack, PyTuple(<<>>)))
           [] op = "EMPTY_LIST" -> Unpickle(data, i + 1, Append(stack, PyList(<<>>)))
           [] op = "MARK" -> Unpickle(data, i + 1, Append(stack, PyMark))
           [] op = "TUPLE1" ->
                IF n < 1 \/ ~AllInts(stack, n) THEN LoadFail
                ELSE Unpickle(data, i + 1, Append(Pop(stack, 1), PyTuple(Ints(stack, n))))
           [] op = "TUPLE2" ->
                IF n < 2 \/ ~AllInts(stack, n - 1) THEN LoadFail
                ELSE Unpickle(data, i + 1, Append(Pop(stack, 2), PyTuple(Ints(stack, n - 1))))
           [] op = "APPEND" ->
                IF n < 2 \/ stack[n].t # "int" \/ stack[n - 1].t # "list" THEN LoadFail
                ELSE Unpickle(data, i + 1,
                        Append(Pop(stack, 2), PyList(Append(stack[n - 1].v, stack[n].v[1]))))
           [] op = "APPENDS" ->
                LET m == MarkPos(stack, n) IN
                IF m < 2 \/ stack[m - 1].t # "list" \/ ~AllInts(stack, m + 1) THEN LoadFail
                ELSE Unpickle(data, i + 1,
                        Append(SubSeq(stack, 1, m - 2),
                               PyList(stack[m - 1].v \o Ints(stack, m + 1))))
           [] op = "STOP" ->
                IF n = 0 THEN LoadFail ELSE [ok |-> TRUE, val |-> Top(stack)]
           [] OTHER -> LoadFail

Loads(data) == Unpickle(data, 1, <<>>)

\* ---- the decorator ----
\* results_name as the caller gives it: a stem, with or without the ".pkl" suffix
Names == {<<"fit">>, <<"fit", ".pkl">>, <<"smp">>}
OutputDir == "out"
Keys == {<<OutputDir, nm>> : nm \in Names}

\* results_file = os.path.join(output_dir, results_name), ".pkl" added if missing
ResultsFile(k) ==
    LET joined == <<k[1], "/">> \o k[2] IN
    IF joined[Len(joined)] = ".pkl" THEN joined ELSE Append(joined, ".pkl")

Paths == {ResultsFile(k) : k \in Keys}

NoFileEntry == [exists |-> FALSE, data |-> <<>>]

\* The wrapped function of the model: returns its argument, raises on BadArg.
BadArg == [t |-> "bad", v |-> <<>>]
Args == Values \cup {BadArg}
WrappedFunc(a) == [raised |-> a = BadArg, val |-> IF a = BadArg THEN PyNone ELSE a]

\* What the disk does to the write of one call: -1, open(results_file, "wb")
\* fails and creates nothing; n >= 0, the file is created and the write fails
\* after n opcodes unless the whole stream is shorter.
MaxDumpLen == CHOOSE n \in 0..20 : /\ \E v \in Values : Picklable(v) /\ Len(Dumps(v)) = n
                                   /\ \A v \in Values : Picklable(v) => Len(Dumps(v)) <= n
WriteOutcomes == -1..MaxDumpLen

\* the write outcomes that differ for a call: none on a hit or when the function
\* raises (nothing is opened), and no more opcodes than the stream has
RoomsFor(hit, f) ==
    IF hit \/ f.raised THEN {0}
    ELSE IF ~Picklable(f.val) THEN {-1, 0}
    ELSE {r \in WriteOutcomes : r <= Len(Dumps(f.val))}

\* the bytes pickle.dump leaves in the opened file, and whether it raised
DumpTo(v, room) ==
    IF ~Picklable(v) THEN [raised |-> TRUE, data |-> <<>>]
    ELSE IF room < Len(Dumps(v))
         THEN [raised |-> TRUE, data |-> SubSeq(Dumps(v), 1, room)]
         ELSE [raised |-> FALSE, data |-> Dumps(v)]

NoCall == [key |-> <<>>, args |-> PyNone, hit |-> FALSE, executed |-> FALSE,
           outcome |-> "none", val |-> PyNone]

InitCache ==
    /\ files = [p \in Paths |-> NoFileEntry]
    /\ execs = [k \in Keys |-> 0]
    /\ rets = [k \in Keys |-> {}]
    /\ faulted = [k \in Keys |-> FALSE]
    /\ first = [k \in Keys |-> "unused"]
    /\ last = NoCall
    /\ ncalls = 0

\* One call of func_wrapper(*args) of the function decorated with key k.
func_wrapper(k, a, room) ==
    LET path == ResultsFile(k)
        hit == files[path].exists
        loaded == Loads(files[path].data)
        f == WrappedFunc(a)
        opened == room >= 0
        dump == DumpTo(f.val, room)
        executed == ~hit
        returned == IF hit THEN loaded.ok
                    ELSE ~f.raised /\ opened /\ ~dump.raised
        val == IF hit THEN loaded.val ELSE f.val
    IN
    /\ ncalls < MaxCalls
    /\ room \in RoomsFor(hit, f)
    /\ ncalls' = ncalls + 1
    /\ files' = IF ~hit /\ ~f.raised /\ opened
                THEN [files EXCEPT ![path] = [exists |-> TRUE, data |-> dump.data]]
                ELSE files
    /\ execs' = [execs EXCEPT ![k] = @ + (IF executed THEN 1 ELSE 0)]
    /\ rets' = [rets EXCEPT ![k] = IF returned THEN @ \cup {val} ELSE @]
    /\ faulted' = [faulted EXCEPT ![k] = @ \/ (~hit /\ (f.raised \/ ~opened))]
    /\ first' = [first EXCEPT ![k] = IF @ = "unused"
                                     THEN (IF hit THEN "stale" ELSE "fresh")
                                     ELSE @]
    /\ last' = [key |-> k, args |-> a, hit |-> hit, executed |-> executed,
                outcome |-> IF returned THEN "returned" ELSE "raised",
                val |-> IF returned THEN val ELSE PyNone]
    /\ UNCHANGED otherThanCache

NextCache == \E k \in Keys, a \in Args, room \in WriteOutcomes : func_wrapper(k, a, room)



(***************************************************************************)
(*                               fit_model                                 *)
(***************************************************************************)

\* Bounds: states K, training trials, time steps of all training trials together.
MaxK == 3
MaxTrials == 2
MaxSteps == 3

\* Python's None where a list or an object may stand instead
None == [isNone |-> TRUE, items |-> <<>>]
List(items) == [isNone |-> FALSE, items |-> items]
NoInput == "None"

States(K) == 0..(K - 1)
Identity(K) == [i \in 1..K |-> i - 1]

RECURSIVE SumT(_)
SumT(trials) == IF trials = <<>> THEN 0 ELSE Head(trials).T + SumT(Tail(trials))

\* The training sets fit_model may be given: n trials, each of its own length.
TrialLists ==
    {trials \in UNION {{[i \in 1..n |-> [id |-> i, T |-> lens[i]]] :
                          lens \in [1..n -> 1..MaxSteps]} : n \in 1..MaxTrials} :
        SumT(trials) <= MaxSteps}

\* Python's zip: pairs up to the shorter argument
Zip(xs, us) ==
    [i \in 1..(IF Len(xs) <= Len(us) THEN Len(xs) ELSE Len(us)) |-> <<xs[i], us[i]>>]

\* the default without the "* len(training_data)"
DefaultInputsSingle(data, inputs) ==
    IF inputs.isNone THEN List(<<NoInput>>) ELSE inputs

\* line 110: [None] * len(training_data) if training_inputs is None else training_inputs
DefaultInputs(data, inputs) ==
    IF inputs.isNone THEN List([i \in 1..Len(data) |-> NoInput]) ELSE inputs

\* The label (0-based position) the model now gives to original state s.
LabelOf(order, s) == CHOOSE l \in 0..(Len(order) - 1) : order[l + 1] = s

\* model.most_likely_states(x, u): the Viterbi path of trial x, in the model's
\* current labels.  m.z[x.id] is that path in the labels the states had when
\* EM ended; m.order[l + 1] is the state that now carries label l.
most_likely_states(m, x, u) ==
    [t \in 1..x.T |-> LabelOf(m.order, m.z[x.id][t])]

\* model.permute(perm): new state l takes the parameters of old state perm[l]
permute(m, perm) ==
    [m EXCEPT !.order = [l \in 1..Len(perm) |-> m.order[perm[l] + 1]]]

\* np.concatenate of a list of paths
RECURSIVE concatenate(_)
concatenate(paths) ==
    IF paths = <<>> THEN <<>> ELSE Head(paths) \o concatenate(Tail(paths))

\* np.bincount(xs, minlength): counts[s] for s in 0 .. max(minlength, max(xs) + 1) - 1
bincount(xs, minlength) ==
    LET top == IF xs = <<>> THEN 0
               ELSE 1 + CHOOSE m \in {xs[i] : i \in 1..Len(xs)} :
                            \A i \in 1..Len(xs) : xs[i] <= m
        n == IF top > minlength THEN top ELSE minlength
    IN [s \in 0..(n - 1) |-> Cardinality({i \in 1..Len(xs) : xs[i] = s})]

\* -usage: sorted ascending it is usage sorted descending (Unnegated drops the sign)
Unnegated(u) == u
Negate(u) == [s \in DOMAIN u |-> 0 - u[s]]

\* np.argsort(keys) with the default kind ("quicksort", which numpy documents as
\* not stable): indices are inserted one at a time into the sorted prefix, an
\* index with an equal key on either side of those already placed.  The result
\* is every order a build of numpy can return.
InsertAt(seq, p, x) == SubSeq(seq, 1, p) \o <<x>> \o SubSeq(seq, p + 1, Len(seq))

RECURSIVE ArgsortFrom(_, _, _)
ArgsortFrom(keys, i, sorted) ==
    IF i \notin DOMAIN keys THEN {sorted}
    ELSE UNION {ArgsortFrom(keys, i + 1, InsertAt(sorted, p, i)) :
                p \in {q \in 0..Len(sorted) :
                         /\ \A j \in 1..q : keys[sorted[j]] <= keys[i]
                         /\ \A j \in (q + 1)..Len(sorted) : keys[sorted[j]] >= keys[i]}}

argsort(keys) == ArgsortFrom(keys, 0, <<>>)

NoModel == [order |-> <<>>, z |-> <<>>]
NoReturn == [returned |-> FALSE, model |-> NoModel, train_states |-> <<>>]

InitFit ==
    /\ f_pc = "start"
    /\ f_K \in 1..MaxK
    /\ training_data \in TrialLists
    /\ training_inputs \in {None, List([i \in 1..Len(training_data) |-> "u"])}
    /\ model = NoModel
    /\ train_states = <<>>
    /\ usage = <<>>
    /\ f_perm = <<>>
    /\ decoded1 = <<>>
    /\ f_log = <<>>
    /\ f_ret = NoReturn

\* lines 95-97: construct and initialize the model
FitInitialize ==
    /\ f_pc = "start"
    /\ model' = [order |-> Identity(f_K), z |-> <<>>]
    /\ f_log' = f_log \o <<"HMM", "initialize", "observations.initialize">>
    /\ f_pc' = "initialized"
    /\ UNCHANGED <<f_K, training_data, training_inputs, train_states, usage, f_perm,
                   decoded1, f_ret>>
    /\ UNCHANGED otherThanFit

\* lines 100-103: EM.  The fitted parameters fix the most likely path of every
\* training trial; which paths is up to the data.
FitEM ==
    /\ f_pc = "initialized"
    /\ \E z \in [1..SumT(training_data) -> States(f_K)] :
          model' = [model EXCEPT
                      !.z = [i \in 1..Len(training_data) |->
                                [t \in 1..training_data[i].T |->
                                    z[SumT(SubSeq(training_data, 1, i - 1)) + t]]]]
    /\ f_log' = Append(f_log, "fit")
    /\ f_pc' = "fitted"
    /\ UNCHANGED <<f_K, training_data, training_inputs, train_states, usage, f_perm,
                   decoded1, f_ret>>
    /\ UNCHANGED otherThanFit

\* lines 106-107: validation and test log-likelihood
FitLogLik ==
    /\ f_pc = "fitted"
    /\ f_log' = f_log \o <<"log_likelihood(validation)", "log_likelihood(test)">>
    /\ f_pc' = "scored"
    /\ UNCHANGED <<f_K, training_data, training_inputs, model, train_states, usage,
                   f_perm, decoded1, f_ret>>
    /\ UNCHANGED otherThanFit

\* lines 110-111: default the inputs, decode the training trials
Decode(m, data, inputs) ==
    LET pairs == Zip(data, inputs) IN
    [i \in 1..Len(pairs) |-> most_likely_states(m, pairs[i][1], pairs[i][2])]

FitDecode ==
    /\ f_pc = "scored"
    /\ training_inputs' = DefaultInputs(training_data, training_inputs)
    /\ train_states' = Decode(model, training_data, training_inputs'.items)
    /\ decoded1' = train_states'
    /\ f_log' = Append(f_log, "most_likely_states")
    /\ f_pc' = "decoded"
    /\ UNCHANGED <<f_K, training_data, model, usage, f_perm, f_ret>>
    /\ UNCHANGED otherThanFit

\* lines 112-113: usage, and the model permuted by np.argsort(-usage)
FitPermute ==
    /\ f_pc = "decoded"
    /\ usage' = bincount(concatenate(train_states), f_K)
    /\ \E perm \in argsort(Negate(usage')) :
          /\ f_perm' = perm
          /\ model' = permute(model, perm)
    /\ f_log' = Append(f_log, "permute")
    /\ f_pc' = "permuted"
    /\ UNCHANGED <<f_K, training_data, training_inputs, train_states, decoded1, f_ret>>
    /\ UNCHANGED otherThanFit

\* line 114: decode again, now in the permuted labels
KeepFirstDecoding(old, new) == old
Redecoded(old, new) == new
FitRedecode ==
    /\ f_pc = "permuted"
    /\ train_states' = Redecoded(train_states, Decode(model, training_data, training_inputs.items))
    /\ f_log' = Append(f_log, "most_likely_states")
    /\ f_pc' = "redecoded"
    /\ UNCHANGED <<f_K, training_data, training_inputs, model, usage, f_perm, decoded1,
                   f_ret>>
    /\ UNCHANGED otherThanFit

\* lines 117-121: the returned dict (lps, val_ll and test_ll are not modelled)
FitReturn ==
    /\ f_pc = "redecoded"
    /\ f_ret' = [returned |-> TRUE, model |-> model, train_states |-> train_states]
    /\ f_pc' = "done"
    /\ UNCHANGED <<f_K, training_data, training_inputs, model, train_states, usage,
                   f_perm, decoded1, f_log>>
    /\ UNCHANGED otherThanFit

NextFit ==
    \/ FitInitialize
    \/ FitEM
    \/ FitLogLik
    \/ FitDecode
    \/ FitPermute
    \/ FitRedecode
    \/ FitReturn

(***************************************************************************)
(*                              sample_arhmm                               *)
(***************************************************************************)

\* Bounds: calls of sample_arhmm, length of test_input, num_samples, seeds.
MaxRuns == 2
MaxInputLen == 2
MaxSamples == 2
MaxSeed == 1

OrigRef == 1
CopyRef == 2
NoObject == [K |-> 0, bias |-> 0, scratch |-> 0]

\* The fitted models the caller may hold.
FittedModels == {[K |-> 2, bias |-> 0, scratch |-> 0], [K |-> 3, bias |-> 1, scratch |-> 0]}

\* numpy.random's global generator: a state, stepped by every draw
RngNext(g) == (g + 3) % 7

\* a seeding that leaves the generator where it is
SeedKeepsState(cur, s) == cur
\* npr.seed(s): the state depends on s alone
SeedRng(cur, s) == s % 7

\* no copy: the local name is bound to the caller's object
AliasCopy(h, r) == [heap |-> h, ref |-> r]
\* copy.deepcopy(arhmm_orig): a new object with the same contents
DeepCopy(h, r) == [heap |-> [h EXCEPT ![CopyRef] = h[r]], ref |-> CopyRef]

\* arhmm.sample(T, input, with_noise): T steps of the generative model.  Each
\* step draws the discrete state, and with noise a second number for the
\* observation, from the global generator; the receiver's own state may be
\* read and updated by the library.
RECURSIVE SampleFrom(_, _, _, _, _, _, _)
SampleFrom(obj, g, input, noise, t, z, x) ==
    IF t > Len(input) THEN [z |-> z, x |-> x, rng |-> g, obj |-> obj]
    ELSE LET g1 == RngNext(g)
             zt == (g1 + obj.bias + obj.scratch + input[t]) % obj.K
             g2 == IF noise THEN RngNext(g1) ELSE g1
             xt == IF noise THEN zt + (g2 % 2) ELSE zt
         IN SampleFrom([obj EXCEPT !.scratch = (@ + zt) % 2], g2, input, noise, t + 1,
                       Append(z, zt), Append(x, xt))

sample(obj, g, input, noise) == SampleFrom(obj, g, input, noise, 1, <<>>, <<>>)

InitSample ==
    /\ s_pc = "idle"
    /\ \E m \in FittedModels : heap = [r \in {OrigRef, CopyRef} |->
                                          IF r = OrigRef THEN m ELSE NoObject]
    /\ arhmm = 0
    /\ rng = SeedRng(0, 0)            \* line 39: npr.seed(0) at import
    /\ seedOf = 0
    /\ test_input \in UNION {[1..T -> 0..1] : T \in 1..MaxInputLen}
    /\ num_samples \in 1..MaxSamples
    /\ with_noise \in BOOLEAN
    /\ smpl = 0
    /\ z_smpls = <<>>
    /\ x_smpls = <<>>
    /\ s_seed = 0
    /\ runs = <<>>

\* the caller seeds the global generator between calls
NprSeed(s) ==
    /\ s_pc = "idle"
    /\ Len(runs) < MaxRuns
    /\ rng' = SeedRng(rng, s)
    /\ seedOf' = s
    /\ UNCHANGED <<s_pc, heap, arhmm, test_input, num_samples, with_noise, smpl,
                   z_smpls, x_smpls, s_seed, runs>>
    /\ UNCHANGED otherThanSample

\* lines 126-133: copy the model, empty the result lists
SampleBegin ==
    /\ s_pc = "idle"
    /\ Len(runs) < MaxRuns
    /\ LET c == DeepCopy(heap, OrigRef) IN
          /\ heap' = c.heap
          /\ arhmm' = c.ref
    /\ smpl' = 0
    /\ z_smpls' = <<>>
    /\ x_smpls' = <<>>
    /\ s_seed' = seedOf
    /\ s_pc' = "loop"
    /\ UNCHANGED <<rng, seedOf, test_input, num_samples, with_noise, runs>>
    /\ UNCHANGED otherThanSample

\* lines 134-137: one draw
SampleDraw ==
    /\ s_pc = "loop"
    /\ smpl < num_samples
    /\ LET d == sample(heap[arhmm], rng, test_input, with_noise) IN
          /\ heap' = [heap EXCEPT ![arhmm] = d.obj]
          /\ rng' = d.rng
          /\ z_smpls' = Append(z_smpls, d.z)
          /\ x_smpls' = Append(x_smpls, d.x)
    /\ seedOf' = -1
    /\ smpl' = smpl + 1
    /\ UNCHANGED <<s_pc, arhmm, test_input, num_samples, with_noise, s_seed, runs>>
    /\ UNCHANGED otherThanSample

\* lines 139-142: return z_smpls, x_smpls; the copy is dropped
SampleReturn ==
    /\ s_pc = "loop"
    /\ smpl = num_samples
    /\ runs' = Append(runs, [seed |-> s_seed, z |-> z_smpls, x |-> x_smpls])
    /\ heap' = [heap EXCEPT ![CopyRef] = IF arhmm = CopyRef THEN NoObject ELSE @]
    /\ arhmm' = 0
    /\ s_pc' = "idle"
    /\ UNCHANGED <<rng, seedOf, test_input, num_samples, with_noise, smpl, z_smpls,
                   x_smpls, s_seed>>
    /\ UNCHANGED otherThanSample

NextSample ==
    \/ \E s \in 0..MaxSeed : NprSeed(s)
    \/ SampleBegin
    \/ SampleDraw
    \/ SampleReturn

(***************************************************************************)
(*                          make_hollywood_movie                           *)
(***************************************************************************)

\* Bound: frames of real_image_stack.
MaxFrames == 4
\* line 261: assert N_samples < 10
SamplesLimit == 10
\* line 316: trange(1, real_image_stack.shape[0])
FirstLoopIndex == 1

\* numbers of decoded stacks the caller may pass, on both sides of the limit
SampleCounts == {0, 1, 2, SamplesLimit - 1, SamplesLimit}

InitMovie ==
    /\ m_pc = "start"
    /\ ffmpeg \in BOOLEAN
    /\ m_T \in 1..MaxFrames
    /\ m_N \in SampleCounts
    /\ titles \in {None, List([j \in 1..(m_N + 1) |-> "t"]), List([j \in 1..m_N |-> "t"])}
    /\ m_i = 0
    /\ shown = -1
    /\ grabbed = <<>>

\* lines 255-274: the writer, and the two assertions
MovieAsserts ==
    /\ m_pc = "start"
    /\ m_pc' = IF ~ffmpeg THEN "RuntimeError"      \* line 255: no such writer
               ELSE IF ~(m_N < SamplesLimit) THEN "AssertionError"
               ELSE IF ~titles.isNone /\ ~(Len(titles.items) = m_N + 1)
                    THEN "AssertionError"
                    ELSE "checked"
    /\ titles' = IF ffmpeg /\ titles.isNone /\ m_N < SamplesLimit
                 THEN List([j \in 1..(m_N + 1) |-> "t"])
                 ELSE titles
    /\ UNCHANGED <<ffmpeg, m_T, m_N, m_i, shown, grabbed>>
    /\ UNCHANGED otherThanMovie

\* lines 276-302: the figure; decoded_image_stacks[0] needs a first stack, and
\* the axes show time index 0
MovieFigure ==
    /\ m_pc = "checked"
    /\ m_pc' = IF m_N = 0 THEN "IndexError" ELSE "saving"
    /\ shown' = IF m_N = 0 THEN shown ELSE 0
    /\ m_i' = FirstLoopIndex
    /\ UNCHANGED <<ffmpeg, m_T, m_N, titles, grabbed>>
    /\ UNCHANGED otherThanMovie

\* lines 316-318: update_frame(i); writer.grab_frame()
MovieFrame ==
    /\ m_pc = "saving"
    /\ m_i < m_T
    /\ shown' = m_i
    /\ grabbed' = Append(grabbed, shown')
    /\ m_i' = m_i + 1
    /\ UNCHANGED <<m_pc, ffmpeg, m_T, m_N, titles>>
    /\ UNCHANGED otherThanMovie

\* the loop is exhausted and writer.saving closes the file
MovieFinish ==
    /\ m_pc = "saving"
    /\ ~(m_i < m_T)
    /\ m_pc' = "done"
    /\ UNCHANGED <<ffmpeg, m_T, m_N, titles, m_i, shown, grabbed>>
    /\ UNCHANGED otherThanMovie

NextMovie ==
    \/ MovieAsserts
    \/ MovieFigure
    \/ MovieFrame
    \/ MovieFinish

(***************************************************************************)
(*                            Specifications                               *)
(***************************************************************************)

IdleCache ==
    /\ files = [p \in Paths |-> NoFileEntry]
    /\ execs = [k \in Keys |-> 0]
    /\ rets = [k \in Keys |-> {}]
    /\ faulted = [k \in Keys |-> FALSE]
    /\ first = [k \in Keys |-> "unused"]
    /\ last = NoCall
    /\ ncalls = 0

IdleFit ==
    /\ f_pc = "idle"
    /\ f_K = 1
    /\ training_data = <<>>
    /\ training_inputs = None
    /\ model = NoModel
    /\ train_states = <<>>
    /\ usage = <<>>
    /\ f_perm = <<>>
    /\ decoded1 = <<>>
    /\ f_log = <<>>
    /\ f_ret = NoReturn

IdleSample ==
    /\ s_pc = "off"
    /\ heap = [r \in {OrigRef, CopyRef} |-> NoObject]
    /\ arhmm = 0
    /\ rng = 0
    /\ seedOf = 0
    /\ test_input = <<>>
    /\ num_samples = 0
    /\ with_noise = FALSE
    /\ smpl = 0
    /\ z_smpls = <<>>
    /\ x_smpls = <<>>
    /\ s_seed = 0
    /\ runs = <<>>

IdleMovie ==
    /\ m_pc = "off"
    /\ ffmpeg = FALSE
    /\ m_T = 0
    /\ m_N = 0
    /\ titles = None
    /\ m_i = 0
    /\ shown = -1
    /\ grabbed = <<>>

InitCacheOnly == InitCache /\ IdleFit /\ IdleSample /\ IdleMovie
SpecCache == InitCacheOnly /\ [][NextCache]_vars

InitFitOnly == InitFit /\ IdleCache /\ IdleSample /\ IdleMovie
SpecFit == InitFitOnly /\ [][NextFit]_vars

InitSampleOnly == InitSample /\ IdleCache /\ IdleFit /\ IdleMovie
SpecSample == InitSampleOnly /\ [][NextSample]_vars

InitMovieOnly == InitMovie /\ IdleCache /\ IdleFit /\ IdleSample
SpecMovie == InitMovieOnly /\ [][NextMovie]_vars

(***************************************************************************)
(*                         Claims about cached                             *)
(***************************************************************************)

C2_HitReturnsStored ==
    [][\A k \in Keys :
          (files[ResultsFile(k)].exists /\ ncalls' = ncalls + 1 /\ last'.key = k) =>
              /\ last'.outcome = "returned"
              /\ Loads(files[ResultsFile(k)].data).ok
              /\ last'.val = Loads(files[ResultsFile(k)].data).val
              /\ execs' = execs
              /\ files' = files]_vars

\* C10: a results file that exists holds the complete pickle of a value the
\* wrapped function returned; a call that raised after running the function
\* leaves no results file behind.
C10_NoPartialResultsFile ==
    /\ \A p \in Paths :
          files[p].exists => \E v \in Values : Picklable(v) /\ files[p].data = Dumps(v)
    /\ (last.outcome = "raised" /\ last.executed) => ~files[ResultsFile(last.key)].exists

(***************************************************************************)
(*                        Claims about fit_model                           *)
(***************************************************************************)

Permuted == f_pc \in {"permuted", "redecoded", "done"}

\* occupancy of state s over the first decoding of the training trials
Occupancy(paths, s) ==
    Cardinality({it \in (1..Len(paths)) \X (1..MaxSteps) :
                    it[2] <= Len(paths[it[1]]) /\ paths[it[1]][it[2]] = s})

\* position of state s in the permutation (0 if absent)
PermPos(s) ==
    IF \E i \in 1..Len(f_perm) : f_perm[i] = s
    THEN CHOOSE i \in 1..Len(f_perm) : f_perm[i] = s
    ELSE 0

\* C3: the permutation passed to model.permute holds every state of [0, K)
\* exactly once, and occupancy does not increase along it (a state never
\* decoded has occupancy 0).
C3_PermutationByUsage ==
    Permuted =>
        /\ Len(f_perm) = f_K
        /\ {f_perm[i] : i \in 1..Len(f_perm)} = States(f_K)
        /\ \A i \in 1..(Len(f_perm) - 1) :
              Occupancy(decoded1, f_perm[i]) >= Occupancy(decoded1, f_perm[i + 1])

\* three states, one never decoded, and a permutation that moves states
C3_Witness ==
    /\ Permuted
    /\ f_K = 3
    /\ f_perm # Identity(f_K)
    /\ \E s \in States(f_K) : Occupancy(decoded1, s) = 0
    /\ \E s \in States(f_K) : Occupancy(decoded1, s) >= 2

\* C4 as claimed: two states of equal occupancy keep their original order
C4_TiesKeepOriginalOrder ==
    Permuted =>
        \A a, b \in States(f_K) :
            (a < b /\ Occupancy(decoded1, a) = Occupancy(decoded1, b)) =>
                PermPos(a) < PermPos(b)

\* C4 as amended: a state of strictly greater occupancy comes before a state
\* of smaller occupancy; nothing is promised for states of equal occupancy.
C4_MoreUsedComesFirst ==
    Permuted =>
        \A a, b \in States(f_K) :
            Occupancy(decoded1, a) > Occupancy(decoded1, b) => PermPos(a) < PermPos(b)

\* two tied states in swapped order next to a strictly ordered pair
C4_Witness ==
    /\ Permuted
    /\ \E a, b \in States(f_K) :
          /\ a < b
          /\ Occupancy(decoded1, a) = Occupancy(decoded1, b)
          /\ PermPos(b) < PermPos(a)
    /\ \E a, b \in States(f_K) :
          /\ a > b
          /\ Occupancy(decoded1, a) > Occupancy(decoded1, b)

\* C7: the returned train_states holds one path per training trial, in trial
\* order, each as long as its trial and with values in [0, K), whether
\* training_inputs was None or a list with one input per trial.
C7_OnePathPerTrial ==
    f_pc = "done" =>
        /\ Len(f_ret.train_states) = Len(training_data)
        /\ \A i \in 1..Len(f_ret.train_states) :
              /\ i <= Len(training_data)
              /\ Len(f_ret.train_states[i]) = training_data[i].T
              /\ \A t \in 1..Len(f_ret.train_states[i]) :
                    /\ f_ret.train_states[i][t] \in States(f_K)
                    /\ f_ret.model.order[f_ret.train_states[i][t] + 1] =
                           f_ret.model.z[training_data[i].id][t]

\* training_inputs was None, two trials of different lengths
C7_Witness ==
    /\ f_pc = "done"
    /\ Len(training_data) = 2
    /\ training_data[1].T # training_data[2].T
    /\ training_inputs.items[1] = NoInput
    /\ Len(f_ret.train_states) = 2

ExpectedCalls ==
    <<"HMM", "initialize", "observations.initialize", "fit",
      "log_likelihood(validation)", "log_likelihood(test)",
      "most_likely_states", "permute", "most_likely_states">>

\* usage of label l in the returned paths
ReturnedUsage(l) == Occupancy(f_ret.train_states, l)

\* C8: the library calls happen in the order initialize, fit, log-likelihoods,
\* decode, permute, decode; the returned train_states are the paths decoded
\* after the permutation, in the labels of the returned model: label l of the
\* returned paths is the state the permutation put at position l.
C8_RedecodedAfterPermute ==
    /\ Len(f_log) <= Len(ExpectedCalls)
    /\ f_log = SubSeq(ExpectedCalls, 1, Len(f_log))
    /\ f_pc = "done" =>
          /\ f_log = ExpectedCalls
          /\ f_ret.model = model
          /\ f_ret.model.order = f_perm
          /\ f_ret.train_states = Decode(model, training_data, training_inputs.items)
          /\ \A l \in States(f_K) :
                ReturnedUsage(l) = Occupancy(decoded1, f_perm[l + 1])

\* the permutation changed the labels, so the two decodings differ
C8_Witness ==
    /\ f_pc = "done"
    /\ f_perm # Identity(f_K)
    /\ f_ret.train_states # decoded1

(***************************************************************************)
(*                       Claims about sample_arhmm                         *)
(***************************************************************************)

\* C5: two completed calls that each began right after npr.seed with the same
\* seed (same model, test_input, num_samples and with_noise throughout)
\* returned the same discrete paths and the same continuous trajectories.
C5_SameSeedSameSamples ==
    \A i, j \in 1..Len(runs) :
        (runs[i].seed # -1 /\ runs[i].seed = runs[j].seed) =>
            /\ runs[i].z = runs[j].z
            /\ runs[i].x = runs[j].x

\* two calls from the same seed, each of two noisy draws that differ from each
\* other (the generator moved between the draws)
C5_Witness ==
    /\ Len(runs) = 2
    /\ runs[1].seed # -1
    /\ runs[1].seed = runs[2].seed
    /\ with_noise
    /\ Len(runs[2].z) = 2
    /\ runs[2].x[1] # runs[2].x[2]

ADraw == smpl' = smpl + 1

\* C6 as claimed: the caller's model is unchanged, and a draw leaves unchanged
\* everything that outlives it except the copied model (and the result lists
\* the draw is appended to).
C6_OnlyCopiedModelCarried ==
    [][/\ heap'[OrigRef] = heap[OrigRef]
       /\ ADraw => /\ rng' = rng
                   /\ UNCHANGED <<arhmm, test_input, num_samples, with_noise>>]_vars

\* C6 as amended: the caller's model is unchanged by every step of the call,
\* sampling uses the copy, and a draw changes nothing that outlives it except
\* the copied model and the state of the global random generator.
C6_OnlyCopyAndGeneratorCarried ==
    [][/\ heap'[OrigRef] = heap[OrigRef]
       /\ ADraw =>
             LET d == sample(heap[CopyRef], rng, test_input, with_noise) IN
             /\ arhmm = CopyRef
             /\ UNCHANGED <<arhmm, test_input, num_samples, with_noise>>
             /\ z_smpls' = Append(z_smpls, d.z)
             /\ x_smpls' = Append(x_smpls, d.x)
             /\ heap'[CopyRef] = d.obj
             /\ rng' = d.rng]_vars

\* a second draw was made from a copy that the first draw had changed, the
\* caller's model still as it was fitted
C6_Witness ==
    /\ s_pc = "loop"
    /\ smpl = 2
    /\ heap[CopyRef] # heap[OrigRef]
    /\ heap[OrigRef] \in FittedModels

(***************************************************************************)
(*                   Claims about make_hollywood_movie                     *)
(***************************************************************************)

\* C9: frames are grabbed only after both assertions passed, in strictly
\* increasing time index, and when the movie is finished exactly one frame has
\* been grabbed for each time index 0 .. T-1 of real_image_stack.
C9_OneFramePerTimeIndex ==
    /\ grabbed # <<>> => m_pc \in {"saving", "done"}
    /\ \A j \in 1..(Len(grabbed) - 1) : grabbed[j] < grabbed[j + 1]
    /\ m_pc = "done" => grabbed = [j \in 1..m_T |-> j - 1]

=============================================================================
